---- MODULE Spec2Model ----
(***************************************************************************)
(* Typed-value extraction over a treexml element tree (src/src/lib.rs).    *)
(*                                                                         *)
(* Strings are sequences of one-character strings, so that splitting a     *)
(* path, parsing digits, formatting numbers and building error messages    *)
(* are computed character by character as the code does.                   *)
(* Option<T> is a tuple: None is << >> and Some(x) is <<x>>.               *)
(* Result<T, treexml::Error> is a record: Ok(v) is [ok |-> TRUE, v |-> v]  *)
(* and Err(e) is [ok |-> FALSE, e |-> [kind |-> variant, t |-> message]].  *)
(***************************************************************************)
EXTENDS Integers, Sequences, FiniteSets, TLC

VARIABLES root, self, op, prim, pre, out, res

vars == <<root, self, op, prim, pre, out, res>>

\* ---------------------------------------------------------------- bounds
\* Longest child list of an element of the initial trees.
MaxChildren == 2
\* Integers handed to make_text_element range over -MaxInt .. MaxInt.
MaxInt == 12
\* Deepest nesting make_tree_element builds (a leaf has depth 0).
MaxDepth == 2

\* ------------------------------------------------------- option / result
None == << >>
Some(x) == <<x>>
Ok(v) == [ok |-> TRUE, v |-> v]
Err(kind, t) == [ok |-> FALSE, e |-> [kind |-> kind, t |-> t]]

\* ------------------------------------------------------ string literals
MsgValueNotFound ==
    <<"V", "a", "l", "u", "e", " ", "n", "o", "t", " ", "f", "o", "u", "n", "d",
      " ", "a", "t", " ", "p", "a", "t", "h", ":", " ">>
MsgInvalidBool ==
    <<"I", "n", "v", "a", "l", "i", "d", " ", "b", "o", "o", "l", "e", "a", "n",
      " ", "v", "a", "l", "u", "e", ":", " ">>
\* Display of core::str::ParseBoolError; "BACKTICK" stands for the one
\* character U+0060, which the TLA+ lexer does not accept inside a string
MsgParseBool ==
    <<"p", "r", "o", "v", "i", "d", "e", "d", " ", "s", "t", "r", "i", "n", "g",
      " ", "w", "a", "s", " ", "n", "o", "t", " ", "BACKTICK", "t", "r", "u", "e", "BACKTICK",
      " ", "o", "r", " ", "BACKTICK", "f", "a", "l", "s", "e", "BACKTICK">>
\* Display of core::num::ParseIntError, kinds Empty and InvalidDigit
MsgIntEmpty ==
    <<"c", "a", "n", "n", "o", "t", " ", "p", "a", "r", "s", "e", " ", "i", "n",
      "t", "e", "g", "e", "r", " ", "f", "r", "o", "m", " ", "e", "m", "p", "t",
      "y", " ", "s", "t", "r", "i", "n", "g">>
MsgIntInvalid ==
    <<"i", "n", "v", "a", "l", "i", "d", " ", "d", "i", "g", "i", "t", " ", "f",
      "o", "u", "n", "d", " ", "i", "n", " ", "s", "t", "r", "i", "n", "g">>

S_true == <<"t", "r", "u", "e">>
S_false == <<"f", "a", "l", "s", "e">>
S_1 == <<"1">>
S_0 == <<"0">>
S_maybe == <<"m", "a", "y", "b", "e">>
S_True == <<"T", "r", "u", "e">>
S_pad1 == <<" ", "1">>
S_empty == << >>
S_5 == <<"5">>
S_neg3 == <<"-", "3">>
S_plus7 == <<"+", "7">>
S_minus == <<"-">>
S_5x == <<"5", "x">>
S_value == <<"v", "a", "l", "u", "e">>
S_key == <<"k", "e", "y">>
S_a == <<"a">>
S_root == <<"r", "o", "o", "t">>
S_a_key == <<"a", "/", "k", "e", "y">>
S_zz == <<"z", "z">>
S_upstream == <<"u", "p", "s", "t", "r", "e", "a", "m">>

\* hay contains needle as a contiguous substring
Contains(hay, needle) ==
    \E i \in 1..(Len(hay) + 1) :
        /\ i + Len(needle) - 1 <= Len(hay)
        /\ SubSeq(hay, i, i + Len(needle) - 1) = needle

\* ----------------------------------------------------- std conversions
Digits == <<"0", "1", "2", "3", "4", "5", "6", "7", "8", "9">>

IsDigit(c) == \E d \in 1..Len(Digits) : Digits[d] = c

to_digit(c) == (CHOOSE d \in 1..Len(Digits) : Digits[d] = c) - 1

\* <i64 as Display>::fmt for a non-negative value: most significant digit first
RECURSIVE fmt_u64(_)
fmt_u64(n) ==
    IF n < 10 THEN <<Digits[n + 1]>>
    ELSE fmt_u64(n \div 10) \o <<Digits[(n % 10) + 1]>>

fmt_i64(v) == IF v < 0 THEN <<"-">> \o fmt_u64(0 - v) ELSE fmt_u64(v)

\* T::to_string() for the Display types handed to the constructors
to_string(T, v) ==
    CASE T = "i64" -> fmt_i64(v)
      [] T = "String" -> v
      [] T = "bool" -> IF v THEN S_true ELSE S_false

\* the digit loop of i64::from_str: every byte must be a decimal digit.
\* Texts here are far shorter than 19 digits, so the checked multiply/add
\* never overflows.
RECURSIVE parse_digits(_, _)
parse_digits(ds, acc) ==
    IF ds = << >> THEN [ok |-> TRUE, v |-> acc]
    ELSE IF ~IsDigit(Head(ds)) THEN [ok |-> FALSE, e |-> "InvalidDigit"]
    ELSE parse_digits(Tail(ds), acc * 10 + to_digit(Head(ds)))

\* i64::from_str: the empty string is the Empty error; a sign with nothing
\* after it is InvalidDigit (toolchains before 1.55 report Empty there; both
\* are errors and differ only in the description); one leading "+" or "-"
\* is taken, the rest goes through the digit loop.
i64_from_str(text) ==
    IF text = << >> THEN [ok |-> FALSE, e |-> "Empty"]
    ELSE IF Len(text) = 1 /\ Head(text) \in {"+", "-"}
         THEN [ok |-> FALSE, e |-> "InvalidDigit"]
    ELSE IF Head(text) = "+" THEN parse_digits(Tail(text), 0)
    ELSE IF Head(text) = "-"
         THEN LET r == parse_digits(Tail(text), 0)
              IN  IF r.ok THEN [ok |-> TRUE, v |-> 0 - r.v] ELSE r
    ELSE parse_digits(text, 0)

bool_from_str(text) ==
    IF text = S_true THEN [ok |-> TRUE, v |-> TRUE]
    ELSE IF text = S_false THEN [ok |-> TRUE, v |-> FALSE]
    ELSE [ok |-> FALSE, e |-> "ParseBoolError"]

\* T::from_str(text); the Err side is T::Err
from_str(T, text) ==
    CASE T = "i64" -> i64_from_str(text)
      [] T = "String" -> [ok |-> TRUE, v |-> text]
      [] T = "bool" -> bool_from_str(text)

\* e.to_string() of a T::Err
err_to_string(e) ==
    CASE e = "Empty" -> MsgIntEmpty
      [] e = "InvalidDigit" -> MsgIntInvalid
      [] e = "ParseBoolError" -> MsgParseBool

\* ------------------------------------------------------ treexml::Element
Element(name, text, cdata, children) ==
    [name |-> name, text |-> text, cdata |-> cdata, children |-> children]

\* <treexml::Element as Default>::default()
DefaultElement == Element(<< >>, None, None, << >>)

\* Creates an XML element that contains child elements
make_tree_element(name, v) == [DefaultElement EXCEPT !.name = name, !.children = v]

\* a slip: the rendered value is stored as cdata, and the text left unset
make_text_element_cdata(name, T, v) ==
    [DefaultElement EXCEPT !.name = name, !.cdata = Some(to_string(T, v))]

\* Creates an XML element with text contents
make_text_element(name, T, v) ==
    [DefaultElement EXCEPT !.name = name, !.text = Some(to_string(T, v))]

\* Creates an XML element with cdata contents
make_cdata_element(name, T, v) ==
    [DefaultElement EXCEPT !.name = name, !.cdata = Some(to_string(T, v))]

RECURSIVE Depth(_)
Depth(e) ==
    IF e.children = << >> THEN 0
    ELSE 1 + (CHOOSE d \in {Depth(e.children[i]) : i \in DOMAIN e.children} :
                \A i \in DOMAIN e.children : Depth(e.children[i]) <= d)

\* the element itself and every element below it
RECURSIVE Subtrees(_)
Subtrees(e) ==
    {e} \cup UNION {Subtrees(e.children[i]) : i \in DOMAIN e.children}

\* ------------------------------------------- treexml's search primitive
\* str::split('/'): the pieces between separators; the empty string gives
\* one empty piece.
RECURSIVE split(_, _)
split(s, cur) ==
    IF s = << >> THEN <<cur>>
    ELSE IF Head(s) = "/" THEN <<cur>> \o split(Tail(s), << >>)
    ELSE split(Tail(s), Append(cur, Head(s)))

\* treexml::Element::find: walk the path one segment at a time, taking at
\* each level the first child with the segment's name.
RECURSIVE find_path(_, _, _)
find_path(segs, original, tree) ==
    IF segs = << >> THEN Ok(tree)
    ELSE IF \E i \in DOMAIN tree.children : tree.children[i].name = Head(segs)
         THEN LET first == CHOOSE i \in DOMAIN tree.children :
                             /\ tree.children[i].name = Head(segs)
                             /\ \A j \in 1..(i - 1) : tree.children[j].name # Head(segs)
              IN  find_path(Tail(segs), original, tree.children[first])
    ELSE Err("ElementNotFound", original)

find(tree, path) == find_path(split(path, << >>), path, tree)

\* treexml::Element::find_value::<T>: find, then parse the text if any
find_value(T, tree, path) ==
    LET el == find(tree, path)
    IN  IF ~el.ok THEN el
        ELSE IF el.v.text = None THEN Ok(None)
        ELSE LET p == from_str(T, el.v.text[1])
             IN  IF p.ok THEN Ok(Some(p.v)) ELSE Err("ValueFromStr", el.v.text[1])

\* A failure of the search primitive that is not ElementNotFound: the
\* primitive returns Result<_, treexml::Error>, and the callers below match
\* on ElementNotFound and on every other variant.
SearchFaults == {Err("ParseError", S_upstream)}

\* ------------------------------------------------------------ ElementExt
\* a slip: every error of the primitive becomes an empty optional
find_value0_swallow(found) == IF found.ok THEN found ELSE Ok(None)

\* `found` is what self.find_value(&path) returned
find_value0(found) ==
    IF found.ok THEN found
    ELSE IF found.e.kind = "ElementNotFound" THEN Ok(None)
    ELSE found

\* a slip: the error for a missing value leaves the path out
find_value1_nopath(found, path) ==
    LET v == find_value0(found)
    IN  IF ~v.ok THEN v
        ELSE IF v.v = None THEN Err("ParseError", MsgValueNotFound)
        ELSE Ok(v.v[1])

\* `found` is what self.find_value(&path) returned inside find_value0
find_value1(found, path) ==
    LET v == find_value0(found)
    IN  IF ~v.ok THEN v
        ELSE IF v.v = None THEN Err("ParseError", MsgValueNotFound \o path)
        ELSE Ok(v.v[1])

\* a slip: the text goes through bool::from_str, which knows only "true"
\* and "false"
find_bool_from_str(found) ==
    IF found.ok
    THEN IF found.v.text = None THEN Ok(TRUE)
         ELSE LET p == bool_from_str(found.v.text[1])
              IN  IF p.ok THEN Ok(p.v)
                  ELSE Err("ParseError", MsgInvalidBool \o found.v.text[1])
    ELSE IF found.e.kind = "ElementNotFound" THEN Ok(FALSE)
    ELSE found

\* `found` is what self.find(&path) returned
find_bool(found) ==
    IF found.ok
    THEN IF found.v.text = None THEN Ok(TRUE)
         ELSE LET text == found.v.text[1]
              IN  IF text = S_true THEN Ok(TRUE)
                  ELSE IF text = S_false THEN Ok(FALSE)
                  ELSE IF text = S_1 THEN Ok(TRUE)
                  ELSE IF text = S_0 THEN Ok(FALSE)
                  ELSE Err("ParseError", MsgInvalidBool \o text)
    ELSE IF found.e.kind = "ElementNotFound" THEN Ok(FALSE)
    ELSE found

\* T::default()
default(T) ==
    CASE T = "i64" -> 0
      [] T = "String" -> S_empty
      [] T = "bool" -> FALSE

\* a slip: the error carries the node's text, not the parse failure's
\* description
unmarshal_into_text(T, node, slot) ==
    IF node.text = None THEN [res |-> Ok(FALSE), out |-> slot]
    ELSE LET p == from_str(T, node.text[1])
         IN  IF p.ok THEN [res |-> Ok(TRUE), out |-> p.v]
             ELSE [res |-> Err("ValueFromStr", node.text[1]), out |-> slot]

\* a slip: the slot is swapped with a default before the parse is known to
\* have succeeded
unmarshal_into_clobber(T, node, slot) ==
    IF node.text = None THEN [res |-> Ok(FALSE), out |-> slot]
    ELSE LET p == from_str(T, node.text[1])
         IN  IF p.ok THEN [res |-> Ok(TRUE), out |-> p.v]
             ELSE [res |-> Err("ValueFromStr", err_to_string(p.e)), out |-> default(T)]

\* the result and the slot as the call leaves it
unmarshal_into(T, node, slot) ==
    IF node.text = None THEN [res |-> Ok(FALSE), out |-> slot]
    ELSE LET p == from_str(T, node.text[1])
         IN  IF p.ok THEN [res |-> Ok(TRUE), out |-> p.v]
             ELSE [res |-> Err("ValueFromStr", err_to_string(p.e)), out |-> slot]

\* a slip: a node without text is treated as the generic coercion treats it
unmarshal_bool_into_generic(node, slot) ==
    IF node.text = None THEN [res |-> Ok(FALSE), out |-> slot]
    ELSE LET p == bool_from_str(node.text[1])
         IN  IF p.ok THEN [res |-> Ok(TRUE), out |-> p.v]
             ELSE [res |-> Err("ValueFromStr", err_to_string(p.e)), out |-> slot]

unmarshal_bool_into(node, slot) ==
    IF node.text = None THEN [res |-> Ok(TRUE), out |-> TRUE]
    ELSE LET p == bool_from_str(node.text[1])
         IN  IF p.ok THEN [res |-> Ok(TRUE), out |-> p.v]
             ELSE [res |-> Err("ValueFromStr", err_to_string(p.e)), out |-> slot]

\* Unmarshaller::unmarshal_from for bool, i64 and String
unmarshal_from(T, slot, node) ==
    IF T = "bool" THEN unmarshal_bool_into(node, slot)
    ELSE unmarshal_into(T, node, slot)

\* ------------------------------------------------------------- inputs
Names == {S_key, S_a}

\* the target types; f64, whose coercion is the same unmarshal_into with
\* f64::from_str, is left out
Types == {"i64", "String", "bool"}

Paths == {S_key, S_a_key, S_zz}

\* text of the children of the initial trees with several children
LeafTexts == {None, Some(S_0), Some(S_maybe)}

\* text of the initial single nodes: absent, the four boolean tokens, their
\* differently-cased and padded variants, integers with and without sign,
\* and texts no parse but String's accepts
NodeTexts ==
    {None, Some(S_true), Some(S_false), Some(S_1), Some(S_0), Some(S_maybe),
     Some(S_True), Some(S_pad1), Some(S_empty), Some(S_5), Some(S_neg3),
     Some(S_plus7), Some(S_minus), Some(S_5x)}

TreeLeaves == {Element(n, t, None, << >>) : n \in Names, t \in LeafTexts}

ChildLists == UNION {[1..k -> TreeLeaves] : k \in 0..MaxChildren}

InitRoots ==
    {Element(n, t, None, << >>) : n \in Names, t \in NodeTexts}
      \cup {make_tree_element(S_a, cs) : cs \in ChildLists}

\* values a caller's slot of type T may hold before a coercion
Slots(T) ==
    CASE T = "i64" -> {0, 9}
      [] T = "String" -> {S_empty, S_value}
      [] T = "bool" -> BOOLEAN

\* values handed to the constructors
Values(T) ==
    CASE T = "i64" -> (0 - MaxInt)..MaxInt
      [] T = "String" -> {S_value, S_maybe}
      [] T = "bool" -> BOOLEAN

Call(name, T, path) == [name |-> name, T |-> T, path |-> path]

\* ------------------------------------------------------- state machine
\* root: the tree the caller holds; self: the element the last call was
\* made on; op: the last call; prim: what the search primitive returned to
\* it; pre, out: the caller's slot before and after it (None when the call
\* takes no slot); res: what it returned.
Init ==
    /\ root \in InitRoots
    /\ self = root
    /\ op = Call("new", "none", << >>)
    /\ prim = Ok(None)
    /\ pre = None
    /\ out = None
    /\ res = Ok(None)

FindValue0(T, path) ==
    \E found \in {find_value(T, root, path)} \cup SearchFaults :
        /\ op' = Call("find_value0", T, path)
        /\ self' = root
        /\ prim' = found
        /\ res' = find_value0(found)
        /\ pre' = None
        /\ out' = None
        /\ UNCHANGED root

FindValue1(T, path) ==
    \E found \in {find_value(T, root, path)} \cup SearchFaults :
        /\ op' = Call("find_value1", T, path)
        /\ self' = root
        /\ prim' = found
        /\ res' = find_value1(found, path)
        /\ pre' = None
        /\ out' = None
        /\ UNCHANGED root

FindBool(path) ==
    \E found \in {find(root, path)} \cup SearchFaults :
        /\ op' = Call("find_bool", "bool", path)
        /\ self' = root
        /\ prim' = found
        /\ res' = find_bool(found)
        /\ pre' = None
        /\ out' = None
        /\ UNCHANGED root

UnmarshalInto(T, node, slot) ==
    LET r == unmarshal_into(T, node, slot)
    IN  /\ op' = Call("unmarshal_into", T, << >>)
        /\ self' = node
        /\ prim' = Ok(None)
        /\ res' = r.res
        /\ pre' = Some(slot)
        /\ out' = Some(r.out)
        /\ UNCHANGED root

UnmarshalBoolInto(node, slot) ==
    LET r == unmarshal_bool_into(node, slot)
    IN  /\ op' = Call("unmarshal_bool_into", "bool", << >>)
        /\ self' = node
        /\ prim' = Ok(None)
        /\ res' = r.res
        /\ pre' = Some(slot)
        /\ out' = Some(r.out)
        /\ UNCHANGED root

UnmarshalFrom(T, node, slot) ==
    LET r == unmarshal_from(T, slot, node)
    IN  /\ op' = Call("unmarshal_from", T, << >>)
        /\ self' = node
        /\ prim' = Ok(None)
        /\ res' = r.res
        /\ pre' = Some(slot)
        /\ out' = Some(r.out)
        /\ UNCHANGED root

Built(name, T, e) ==
    /\ root' = e
    /\ self' = e
    /\ op' = Call(name, T, << >>)
    /\ prim' = Ok(None)
    /\ res' = Ok(None)
    /\ pre' = None
    /\ out' = None

MakeTextElement(name, T, v) == Built("make_text_element", T, make_text_element(name, T, v))

MakeTreeElement(name) ==
    /\ Depth(root) < MaxDepth
    /\ Built("make_tree_element", "none", make_tree_element(name, <<root>>))

Next ==
    \/ \E T \in Types, path \in Paths : FindValue0(T, path)
    \/ \E T \in Types, path \in Paths : FindValue1(T, path)
    \/ \E path \in Paths : FindBool(path)
    \/ \E T \in Types, node \in Subtrees(root) : \E slot \in Slots(T) : UnmarshalInto(T, node, slot)
    \/ \E node \in Subtrees(root), slot \in BOOLEAN : UnmarshalBoolInto(node, slot)
    \/ \E T \in Types, node \in Subtrees(root) : \E slot \in Slots(T) : UnmarshalFrom(T, node, slot)
    \/ \E name \in Names, T \in Types : \E v \in Values(T) : MakeTextElement(name, T, v)
    \/ MakeTreeElement(S_root)

Spec == Init /\ [][Next]_vars

\* ---------------------------------------------------------------- claims
\* the last call was the boolean coercion, directly or through bool's
\* unmarshal_from
IsBoolCoercion ==
    \/ op.name = "unmarshal_bool_into"
    \/ op.name = "unmarshal_from" /\ op.T = "bool"

\* the last call was the generic coercion, directly or through the
\* unmarshal_from of a type that delegates to it
IsGenericCoercion ==
    \/ op.name = "unmarshal_into"
    \/ op.name = "unmarshal_from" /\ op.T # "bool"

\* C1: on a node with text, the boolean coercion accepts exactly the four
\* tokens: "true" and "1" assign true, "false" and "0" assign false, both
\* returning Ok(true); any other text returns an error.
C1_BoolTokens ==
    (IsBoolCoercion /\ self.text # None) =>
        LET text == self.text[1]
        IN  IF text \in {S_true, S_1}
            THEN res.ok /\ res.v = TRUE /\ out = Some(TRUE)
            ELSE IF text \in {S_false, S_0}
            THEN res.ok /\ res.v = TRUE /\ out = Some(FALSE)
            ELSE ~res.ok

\* C2: find_bool classifies the search outcome: not found gives Ok(false);
\* a node without text gives Ok(true); text "true" or "1" gives Ok(true);
\* "false" or "0" gives Ok(false); any other text gives an error naming
\* that text; any other search error is returned unchanged.
C2_FindBoolClassifies ==
    op.name = "find_bool" =>
        IF ~prim.ok
        THEN IF prim.e.kind = "ElementNotFound"
             THEN res.ok /\ res.v = FALSE
             ELSE ~res.ok /\ res.e = prim.e
        ELSE IF prim.v.text = None THEN res.ok /\ res.v = TRUE
        ELSE LET text == prim.v.text[1]
             IN  IF text \in {S_true, S_1} THEN res.ok /\ res.v = TRUE
                 ELSE IF text \in {S_false, S_0} THEN res.ok /\ res.v = FALSE
                 ELSE ~res.ok /\ Contains(res.e.t, text)

\* find_bool reached a nested node holding "0" and answered Ok(false)
C2_Witness ==
    /\ op.name = "find_bool"
    /\ op.path = S_a_key
    /\ prim.ok
    /\ prim.v.text = Some(S_0)
    /\ res.ok
    /\ res.v = FALSE

\* C3: find_value0 downgrades only the primitive's not-found error: not
\* found becomes Ok(None), every other error and every success is returned
\* unchanged; a node that is present with text its type cannot parse gives
\* an error, never an empty optional.
C3_OnlyNotFoundDowngraded ==
    op.name = "find_value0" =>
        /\ IF prim.ok THEN res.ok /\ res.v = prim.v
           ELSE IF prim.e.kind = "ElementNotFound" THEN res.ok /\ res.v = None
           ELSE ~res.ok /\ res.e = prim.e
        /\ LET el == find(root, op.path)
           IN  ( /\ prim = find_value(op.T, root, op.path)
                 /\ el.ok
                 /\ el.v.text # None
                 /\ ~from_str(op.T, el.v.text[1]).ok ) => ~res.ok

\* find_value0::<i64> reached a node holding "maybe" and returned the
\* primitive's error
C3_Witness ==
    /\ op.name = "find_value0"
    /\ op.T = "i64"
    /\ find(root, op.path).ok
    /\ find(root, op.path).v.text = Some(S_maybe)
    /\ ~prim.ok
    /\ ~res.ok
    /\ res.e = prim.e

\* C4: find_value1 returns v when find_value0 gives Some(v), an error that
\* references the requested path when find_value0 gives None, and
\* find_value0's error unchanged when find_value0 fails.
C4_RequiredFromOptional ==
    op.name = "find_value1" =>
        LET v0 == find_value0(prim)
        IN  IF ~v0.ok THEN ~res.ok /\ res.e = v0.e
            ELSE IF v0.v = None THEN ~res.ok /\ Contains(res.e.t, op.path)
            ELSE res.ok /\ res.v = v0.v[1]

\* find_value1 on an absent nested path failed with an error holding the path
C4_Witness ==
    /\ op.name = "find_value1"
    /\ op.path = S_a_key
    /\ ~prim.ok
    /\ prim.e.kind = "ElementNotFound"
    /\ ~res.ok
    /\ Contains(res.e.t, S_a_key)

\* C5: unmarshal_into for a non-boolean type has three outcomes: no text
\* gives Ok(false) and leaves the slot; text the type parses overwrites the
\* slot with the parsed value and gives Ok(true); text the type rejects
\* gives an error carrying the description of the parse failure.
C5_GenericCoercion ==
    (IsGenericCoercion /\ op.T # "bool") =>
        IF self.text = None THEN res.ok /\ res.v = FALSE /\ out = pre
        ELSE LET p == from_str(op.T, self.text[1])
             IN  IF p.ok THEN res.ok /\ res.v = TRUE /\ out = Some(p.v)
                 ELSE ~res.ok /\ Contains(res.e.t, err_to_string(p.e))

\* unmarshal_into::<i64> parsed "-3" over a slot that held 9
C5_Witness ==
    /\ op.name = "unmarshal_into"
    /\ op.T = "i64"
    /\ self.text = Some(S_neg3)
    /\ pre = Some(9)
    /\ out = Some(0 - 3)
    /\ res.ok

\* C6: on a node without text the boolean coercion assigns true and returns
\* Ok(true), while unmarshal_into returns Ok(false) and assigns nothing.
C6_EmptyNodeIsTrue ==
    self.text = None =>
        /\ IsBoolCoercion => (res.ok /\ res.v = TRUE /\ out = Some(TRUE))
        /\ op.name = "unmarshal_into" => (res.ok /\ res.v = FALSE /\ out = pre)

\* bool's unmarshal_from turned a false slot true on a node without text
C6_Witness ==
    /\ op.name = "unmarshal_from"
    /\ op.T = "bool"
    /\ self.text = None
    /\ pre = Some(FALSE)
    /\ out = Some(TRUE)
    /\ res.ok

\* C7: for a text that is none of the four boolean tokens, the boolean
\* coercion returns an error that contains that text.
C7_BoolErrorNamesText ==
    ( /\ IsBoolCoercion
      /\ self.text # None
      /\ self.text[1] \notin {S_true, S_false, S_1, S_0} )
        => (~res.ok /\ Contains(res.e.t, self.text[1]))

\* C8: an element built by make_text_element from an integer v, coerced
\* with unmarshal_into into an integer slot, returns Ok(true) and leaves v
\* in the slot whatever the slot held.
C8_IntRoundTrip ==
    \A name \in Names, v \in (0 - MaxInt)..MaxInt :
        ( /\ IsGenericCoercion
          /\ op.T = "i64"
          /\ self = make_text_element(name, "i64", v) )
            => (res.ok /\ res.v = TRUE /\ out = Some(v))

\* the most negative integer of the range came back over a slot holding 9
C8_Witness ==
    /\ op.name = "unmarshal_into"
    /\ op.T = "i64"
    /\ self = make_text_element(S_key, "i64", 0 - MaxInt)
    /\ self.text # None
    /\ Len(self.text[1]) > 2
    /\ pre = Some(9)
    /\ out = Some(0 - MaxInt)

\* C9: for a path whose search finds node n, find_bool returns Ok(b) exactly
\* when unmarshal_bool_into on n returns Ok(true) with the slot set to b,
\* and fails exactly when unmarshal_bool_into on n fails.
C9_SameBooleanRule ==
    (op.name = "find_bool" /\ prim.ok) =>
        \A slot \in BOOLEAN :
            LET u == unmarshal_bool_into(prim.v, slot)
            IN  /\ res.ok <=> u.res.ok
                /\ res.ok => (u.res.v = TRUE /\ u.out = res.v)

\* C10: a coercion that returns an error leaves the slot as it was, and no
\* coercion or lookup changes the tree or the node it reads.
C10_Frame ==
    [][ /\ (pre' # None /\ ~res'.ok) => out' = pre'
        /\ op'.name \in {"find_value0", "find_value1", "find_bool", "unmarshal_into",
                         "unmarshal_bool_into", "unmarshal_from"}
             => (root' = root /\ self' \in Subtrees(root)) ]_vars

\* unmarshal_into::<i64> failed on "5x" and the slot still holds 9
C10_Witness ==
    /\ op.name = "unmarshal_into"
    /\ op.T = "i64"
    /\ self.text = Some(S_5x)
    /\ ~res.ok
    /\ pre = Some(9)
    /\ out = Some(9)

====
